---------------------------- MODULE Spec2Model ----------------------------
(***************************************************************************)
(* Invoicing Manager KPI Dashboard (invoicing_dashboard_streamlit.py).     *)
(*                                                                         *)
(* The dashboard is a Streamlit script: main() is run from top to bottom   *)
(* once when the page opens and once more after every widget interaction.  *)
(* The state of a session is the state of its widgets (the uploaded file,  *)
(* the selected month, the view mode) together with what the last run of   *)
(* main() computed and rendered.                                           *)
(*                                                                         *)
(* Numbers.  A spreadsheet cell is an integer.  A computed value (a float  *)
(* in the program) is an exact fraction [n, d]:                            *)
(*      d > 0           the finite value n / d                             *)
(*      d = 0, n > 0    +inf          d = 0, n < 0    -inf                 *)
(*      d = 0, n = 0    nan                                                *)
(*      d < 0           no value: the division raised ZeroDivisionError    *)
(* Binary rounding of floats is not modelled: products and quotients are   *)
(* exact.                                                                  *)
(***************************************************************************)
EXTENDS Integers, Sequences, FiniteSets

\* ------------------------------------------------------------------------
\* Bounds of the model
\* ------------------------------------------------------------------------

\* Longest table (rows of a spreadsheet, rows of a table handed to calculate_kpis).
MaxRows == 2
\* Calendar months a row's Month cell ranges over: 1..MaxMonth.
MaxMonth == 2
\* month_idx handed to calculate_kpis ranges over -MaxIdx..MaxIdx.
MaxIdx == 3
\* get_status is tried on targets -MaxTarget..MaxTarget ...
MaxTarget == 5
\* ... and on the values k / 10 for k in -MaxTenths..MaxTenths (and inf, -inf, nan).
MaxTenths == 60
\* The options of the trend KPI selectbox a user picks: positions 0..MaxMetric.
MaxMetric == 1

\* ------------------------------------------------------------------------
\* Floating-point values
\* ------------------------------------------------------------------------

Num(k) == [n |-> k, d |-> 1]
PosInf == [n |-> 1, d |-> 0]
NegInf == [n |-> -1, d |-> 0]
NaN == [n |-> 0, d |-> 0]
Raised == [n |-> 0, d |-> -1]

IsNaN(x) == x.d = 0 /\ x.n = 0
IsFinite(x) == x.d > 0
Sign(a) == IF a > 0 THEN 1 ELSE IF a < 0 THEN -1 ELSE 0

\* x <= y on floats: false as soon as one side is nan.
Le(x, y) ==
    /\ ~IsNaN(x)
    /\ ~IsNaN(y)
    /\ IF x.d = 0 /\ y.d = 0 THEN x.n <= y.n ELSE x.n * y.d <= y.n * x.d

\* x >= y on floats.
Ge(x, y) == Le(y, x)

\* x < y on floats.
Lt(x, y) == Le(x, y) /\ ~Le(y, x)

\* x + y on floats (neither operand is the result of a raised division).
Add(x, y) ==
    IF IsNaN(x) \/ IsNaN(y) THEN NaN
    ELSE IF x.d = 0 /\ y.d = 0 THEN (IF x.n = y.n THEN x ELSE NaN)
    ELSE IF x.d = 0 THEN x
    ELSE IF y.d = 0 THEN y
    ELSE [n |-> x.n * y.d + y.n * x.d, d |-> x.d * y.d]

\* x * (p / q) for a positive constant p / q (1.1 is 11 / 10, 0.9 is 9 / 10, 100 is 100 / 1).
Times(x, p, q) == IF x.d <= 0 THEN x ELSE [n |-> x.n * p, d |-> x.d * q]

\* a / b with a silent default: what a guarded division would return.
DivDefaultZero(a, b, boxed) ==
    IF b > 0 THEN [n |-> a, d |-> b]
    ELSE IF b < 0 THEN [n |-> -a, d |-> -b]
    ELSE Num(0)

\* a / b of two cells of a row.  The cells of a numeric column are numpy
\* scalars: dividing by zero gives inf, -inf or nan (and a warning), no error.
\* The cells of an object column (boxed) are Python numbers: dividing by zero
\* raises ZeroDivisionError.
Div(a, b, boxed) ==
    IF b > 0 THEN [n |-> a, d |-> b]
    ELSE IF b < 0 THEN [n |-> -a, d |-> -b]
    ELSE IF boxed THEN Raised
    ELSE [n |-> Sign(a), d |-> 0]

\* ------------------------------------------------------------------------
\* get_status
\* ------------------------------------------------------------------------

Green == <<"green", "success">>
Amber == <<"amber", "warning">>
Red == <<"red", "error">>

\* get_status with the band edge excluded.
get_status_strict_band(value, target, comparison) ==
    IF comparison = "<="
    THEN IF Le(value, target) THEN Green
         ELSE IF Le(value, Times(target, 11, 10)) /\ ~Le(Times(target, 11, 10), value) THEN Amber
         ELSE Red
    ELSE IF Ge(value, target) THEN Green
         ELSE IF Ge(value, Times(target, 9, 10)) /\ ~Ge(Times(target, 9, 10), value) THEN Amber
         ELSE Red

\* get_status with the target itself excluded from on-target.
get_status_strict_target(value, target, comparison) ==
    IF comparison = "<="
    THEN IF Le(value, target) /\ ~Le(target, value) THEN Green
         ELSE IF Le(value, Times(target, 11, 10)) THEN Amber
         ELSE Red
    ELSE IF Ge(value, target) /\ ~Ge(target, value) THEN Green
         ELSE IF Ge(value, Times(target, 9, 10)) THEN Amber
         ELSE Red

get_status(value, target, comparison) ==
    IF comparison = "<="
    THEN IF Le(value, target) THEN Green
         ELSE IF Le(value, Times(target, 11, 10)) THEN Amber
         ELSE Red
    ELSE IF Ge(value, target) THEN Green
         ELSE IF Ge(value, Times(target, 9, 10)) THEN Amber
         ELSE Red

\* The bar colour create_gm_summary_chart derives from the status icon.
Colour(status) ==
    IF status[1] = "green" THEN "#00B050"
    ELSE IF status[1] = "amber" THEN "#FFC000"
    ELSE "#C00000"

\* ------------------------------------------------------------------------
\* kpi_definitions
\* ------------------------------------------------------------------------

\* A catalog entry; priority is FALSE where the entry has no 'priority' key.
Kpi(name, key, target, comparison, priority) ==
    [name |-> name, key |-> key, target |-> target, comparison |-> comparison,
     priority |-> priority]

\* The order in which the dict kpi_definitions iterates its categories.
categories == <<"timeliness", "quality", "coverage", "wip", "collaboration">>

\* The catalog with the second coverage flag on a collaboration entry instead.
kpi_definitions_one_per_category ==
    [timeliness |-> <<
        Kpi("Billing Timeliness (Days)", "billing_timeliness_days", 5, "<=", TRUE),
        Kpi("% Invoices Issued on Time", "pct_invoices_on_time", 95, ">=", FALSE),
        Kpi("Invoice Cycle Time (Days)", "invoice_cycle_time", 7, "<=", FALSE),
        Kpi("Missed Billing Milestones", "missed_milestones", 0, "<=", FALSE) >>,
     quality |-> <<
        Kpi("Invoice Error Rate %", "invoice_error_rate", 2, "<=", FALSE),
        Kpi("Invoice Reissue Rate %", "invoice_reissue_rate", 3, "<=", FALSE),
        Kpi("Disputed Invoice %", "disputed_invoice_pct", 5, "<=", TRUE),
        Kpi("Dispute Resolution Days", "dispute_resolution_days", 10, "<=", FALSE) >>,
     coverage |-> <<
        Kpi("Billing Coverage %", "billing_coverage_pct", 98, ">=", TRUE),
        Kpi("Unbilled Revenue %", "unbilled_revenue_pct", 5, "<=", FALSE),
        Kpi("Change Order Billing Rate %", "co_billing_rate", 95, ">=", FALSE),
        Kpi("Advance Drawdown Rate %", "advance_drawdown_rate", 100, "<=", FALSE) >>,
     wip |-> <<
        Kpi("WIP Aging (Days)", "wip_aging_days", 30, "<=", TRUE),
        Kpi("Stale WIP % (>60 days)", "stale_wip_pct", 10, "<=", FALSE),
        Kpi("WIP to Revenue Ratio", "wip_to_revenue_ratio", 1, "<=", FALSE) >>,
     collaboration |-> <<
        Kpi("PM Approval Time (Days)", "pm_approval_days", 3, "<=", TRUE),
        Kpi("Incomplete Billing Packages %", "incomplete_packages_pct", 5, "<=", FALSE),
        Kpi("Late Cost Inputs %", "late_cost_inputs_pct", 5, "<=", FALSE) >>]

kpi_definitions ==
    [timeliness |-> <<
        Kpi("Billing Timeliness (Days)", "billing_timeliness_days", 5, "<=", TRUE),
        Kpi("% Invoices Issued on Time", "pct_invoices_on_time", 95, ">=", FALSE),
        Kpi("Invoice Cycle Time (Days)", "invoice_cycle_time", 7, "<=", FALSE),
        Kpi("Missed Billing Milestones", "missed_milestones", 0, "<=", FALSE) >>,
     quality |-> <<
        Kpi("Invoice Error Rate %", "invoice_error_rate", 2, "<=", FALSE),
        Kpi("Invoice Reissue Rate %", "invoice_reissue_rate", 3, "<=", FALSE),
        Kpi("Disputed Invoice %", "disputed_invoice_pct", 5, "<=", TRUE),
        Kpi("Dispute Resolution Days", "dispute_resolution_days", 10, "<=", FALSE) >>,
     coverage |-> <<
        Kpi("Billing Coverage %", "billing_coverage_pct", 98, ">=", TRUE),
        Kpi("Unbilled Revenue %", "unbilled_revenue_pct", 5, "<=", TRUE),
        Kpi("Change Order Billing Rate %", "co_billing_rate", 95, ">=", FALSE),
        Kpi("Advance Drawdown Rate %", "advance_drawdown_rate", 100, "<=", FALSE) >>,
     wip |-> <<
        Kpi("WIP Aging (Days)", "wip_aging_days", 30, "<=", TRUE),
        Kpi("Stale WIP % (>60 days)", "stale_wip_pct", 10, "<=", FALSE),
        Kpi("WIP to Revenue Ratio", "wip_to_revenue_ratio", 1, "<=", FALSE) >>,
     collaboration |-> <<
        Kpi("PM Approval Time (Days)", "pm_approval_days", 3, "<=", FALSE),
        Kpi("Incomplete Billing Packages %", "incomplete_packages_pct", 5, "<=", FALSE),
        Kpi("Late Cost Inputs %", "late_cost_inputs_pct", 5, "<=", FALSE) >>]

\* Every catalog entry, in category order and then in within-category order:
\* the nested loops "for category_kpis in kpi_definitions.values(): for kpi_def in category_kpis".
AllDefinitions ==
    LET defs == kpi_definitions
    IN  defs.timeliness \o defs.quality \o defs.coverage \o defs.wip \o defs.collaboration


\* ------------------------------------------------------------------------
\* The monthly table
\* ------------------------------------------------------------------------

\* required_columns of validate_excel_data, in its order.
required_columns ==
    <<"Month", "Total_Invoices", "OnTime_Invoices", "Avg_Billing_Timeliness",
      "Avg_Invoice_Cycle_Time", "Planned_Milestones", "Invoiced_Milestones",
      "Corrected_Invoices", "Reissued_Invoices", "Disputed_Invoices",
      "Avg_Dispute_Resolution_Days", "Recognized_Revenue", "Invoiced_Amount",
      "CO_Approved", "CO_Invoiced", "Advance_Received", "Advance_Used",
      "WIP", "Avg_Daily_Billed_Revenue", "Old_WIP", "Monthly_Revenue",
      "Submitted_Packages", "Returned_Packages", "Avg_PM_Approval_Days",
      "Total_Cost_Reports", "Late_Cost_Reports">>

Range(s) == {s[i] : i \in 1..Len(s)}

\* A month of data as a spreadsheet row holds it (Month is filled in by RowIn).
RowA ==
    [Month |-> 1,
     Total_Invoices |-> 50, OnTime_Invoices |-> 47,
     Avg_Billing_Timeliness |-> 4, Avg_Invoice_Cycle_Time |-> 6,
     Planned_Milestones |-> 10, Invoiced_Milestones |-> 9,
     Corrected_Invoices |-> 1, Reissued_Invoices |-> 2, Disputed_Invoices |-> 3,
     Avg_Dispute_Resolution_Days |-> 8,
     Recognized_Revenue |-> 1000, Invoiced_Amount |-> 985,
     CO_Approved |-> 100, CO_Invoiced |-> 96,
     Advance_Received |-> 200, Advance_Used |-> 150,
     WIP |-> 600, Avg_Daily_Billed_Revenue |-> 25, Old_WIP |-> 54,
     Monthly_Revenue |-> 800,
     Submitted_Packages |-> 20, Returned_Packages |-> 1,
     Avg_PM_Approval_Days |-> 2,
     Total_Cost_Reports |-> 40, Late_Cost_Reports |-> 3]

\* A worse month: every cell differs from RowA's, thirds do not come out even,
\* and more milestones were invoiced than planned.
RowB ==
    [Month |-> 1,
     Total_Invoices |-> 30, OnTime_Invoices |-> 26,
     Avg_Billing_Timeliness |-> 7, Avg_Invoice_Cycle_Time |-> 9,
     Planned_Milestones |-> 6, Invoiced_Milestones |-> 8,
     Corrected_Invoices |-> 2, Reissued_Invoices |-> 1, Disputed_Invoices |-> 4,
     Avg_Dispute_Resolution_Days |-> 12,
     Recognized_Revenue |-> 900, Invoiced_Amount |-> 850,
     CO_Approved |-> 70, CO_Invoiced |-> 60,
     Advance_Received |-> 300, Advance_Used |-> 330,
     WIP |-> 700, Avg_Daily_Billed_Revenue |-> 21, Old_WIP |-> 90,
     Monthly_Revenue |-> 650,
     Submitted_Packages |-> 15, Returned_Packages |-> 2,
     Avg_PM_Approval_Days |-> 4,
     Total_Cost_Reports |-> 35, Late_Cost_Reports |-> 6]

\* An idle month: nothing invoiced, nothing planned, every cell 0.
RowZero == [c \in Range(required_columns) |-> IF c = "Month" THEN 1 ELSE 0]

\* The columns calculate_kpis divides by.
DenominatorColumns ==
    {"Total_Invoices", "Recognized_Revenue", "CO_Approved", "Advance_Received",
     "WIP", "Avg_Daily_Billed_Revenue", "Monthly_Revenue", "Submitted_Packages",
     "Total_Cost_Reports"}

\* The rows a table handed to calculate_kpis is made of: the two months, the
\* idle month, and RowA with one denominator cell 0.
RowKinds ==
    {RowA, RowB, RowZero} \cup {[RowA EXCEPT ![c] = 0] : c \in DenominatorColumns}

\* The rows an uploaded spreadsheet is made of.
SheetRowKinds == {RowA, RowB, [RowA EXCEPT !["Total_Invoices"] = 0]}

Months == 1..MaxMonth

\* A loaded table (a DataFrame): its rows, and whether its numeric columns
\* are object columns holding Python numbers (boxed) or numeric columns
\* holding numpy scalars.
Table(rows, boxed) == [loaded |-> TRUE, rows |-> rows, boxed |-> boxed]

\* monthly_data is None.
NoTable == [loaded |-> FALSE, rows |-> <<>>, boxed |-> FALSE]

\* ------------------------------------------------------------------------
\* calculate_kpis
\* ------------------------------------------------------------------------

\* data.iloc[i] raises IndexError.
IndexError(data, i) == i >= Len(data.rows) \/ i < -Len(data.rows)

\* data.iloc[i] with negative positions rejected.
iloc_no_negative(data, i) ==
    IF i >= 0 /\ i < Len(data.rows) THEN <<data.rows[i + 1]>> ELSE <<>>

\* data.iloc[i]: the row at position i, counted from the end when i is
\* negative, as a one-element sequence; <<>> when it raises IndexError.
iloc(data, i) ==
    IF i >= 0 /\ i < Len(data.rows) THEN <<data.rows[i + 1]>>
    ELSE IF i < 0 /\ i >= -Len(data.rows) THEN <<data.rows[Len(data.rows) + i + 1]>>
    ELSE <<>>

\* x * 100
Pct(x) == Times(x, 100, 1)

\* The dict literal of calculate_kpis.
KpiDict(row, boxed) ==
    [billing_timeliness_days |-> Num(row.Avg_Billing_Timeliness),
     pct_invoices_on_time |-> Pct(Div(row.OnTime_Invoices, row.Total_Invoices, boxed)),
     invoice_cycle_time |-> Num(row.Avg_Invoice_Cycle_Time),
     missed_milestones |-> Num(row.Planned_Milestones - row.Invoiced_Milestones),
     invoice_error_rate |-> Pct(Div(row.Corrected_Invoices, row.Total_Invoices, boxed)),
     invoice_reissue_rate |-> Pct(Div(row.Reissued_Invoices, row.Total_Invoices, boxed)),
     disputed_invoice_pct |-> Pct(Div(row.Disputed_Invoices, row.Total_Invoices, boxed)),
     dispute_resolution_days |-> Num(row.Avg_Dispute_Resolution_Days),
     billing_coverage_pct |-> Pct(Div(row.Invoiced_Amount, row.Recognized_Revenue, boxed)),
     unbilled_revenue_pct |->
        Pct(Div(row.Recognized_Revenue - row.Invoiced_Amount, row.Recognized_Revenue, boxed)),
     co_billing_rate |-> Pct(Div(row.CO_Invoiced, row.CO_Approved, boxed)),
     advance_drawdown_rate |-> Pct(Div(row.Advance_Used, row.Advance_Received, boxed)),
     wip_aging_days |-> Div(row.WIP, row.Avg_Daily_Billed_Revenue, boxed),
     stale_wip_pct |-> Pct(Div(row.Old_WIP, row.WIP, boxed)),
     wip_to_revenue_ratio |-> Div(row.WIP, row.Monthly_Revenue, boxed),
     pm_approval_days |-> Num(row.Avg_PM_Approval_Days),
     incomplete_packages_pct |-> Pct(Div(row.Returned_Packages, row.Submitted_Packages, boxed)),
     late_cost_inputs_pct |-> Pct(Div(row.Late_Cost_Reports, row.Total_Cost_Reports, boxed))]

\* No mapping: the call raised.
NoKpis == [k \in {} |-> NaN]

\* What a call of calculate_kpis ends with: the mapping it returns, or the
\* error it raises.
Returns(kpis) == [error |-> "none", kpis |-> kpis]
Raises(error) == [error |-> error, kpis |-> NoKpis]

\* The rest of calculate_kpis once the row is fetched.
KpisOfRow(row, boxed) ==
    LET kpis == KpiDict(row, boxed)
    IN  IF \E k \in DOMAIN kpis : kpis[k] = Raised
        THEN Raises("ZeroDivisionError")
        ELSE Returns(kpis)

\* calculate_kpis always reading the first row.
calculate_kpis_first_row(data, month_idx) ==
    IF iloc(data, month_idx) = <<>> THEN Raises("IndexError")
    ELSE KpisOfRow(data.rows[1], data.boxed)

\* calculate_kpis without its last entry.
calculate_kpis_missing_key(data, month_idx) ==
    IF iloc(data, month_idx) = <<>> THEN Raises("IndexError")
    ELSE LET r == KpisOfRow(iloc(data, month_idx)[1], data.boxed)
         IN  IF r.error # "none" THEN r
             ELSE Returns([k \in DOMAIN r.kpis \ {"late_cost_inputs_pct"} |-> r.kpis[k]])

calculate_kpis(data, month_idx) ==
    IF iloc(data, month_idx) = <<>> THEN Raises("IndexError")
    ELSE KpisOfRow(iloc(data, month_idx)[1], data.boxed)


\* ------------------------------------------------------------------------
\* validate_excel_data, load_data_from_excel
\* ------------------------------------------------------------------------

\* An uploaded file: whether pd.read_excel can read it, whether its Month
\* column converts to dates, the columns of its first sheet, its rows in file
\* order, and whether its numeric columns are object columns.
File(readable, month_ok, columns, rows, boxed) ==
    [present |-> TRUE, readable |-> readable, month_ok |-> month_ok,
     columns |-> columns, rows |-> rows, boxed |-> boxed]

\* uploaded_file is None.
NoFile ==
    [present |-> FALSE, readable |-> FALSE, month_ok |-> FALSE,
     columns |-> {}, rows |-> <<>>, boxed |-> FALSE]

\* validate_excel_data reporting only the first missing column.
validate_excel_data_first_only(df) ==
    LET missing_columns == SelectSeq(required_columns, LAMBDA col : col \notin df.columns)
    IN  IF missing_columns # <<>> THEN <<FALSE, <<missing_columns[1]>> >> ELSE <<TRUE, <<>> >>

validate_excel_data(df) ==
    LET missing_columns == SelectSeq(required_columns, LAMBDA col : col \notin df.columns)
    IN  IF missing_columns # <<>> THEN <<FALSE, missing_columns>> ELSE <<TRUE, <<>> >>

\* What the last run of load_data_from_excel got from validate_excel_data.
NotValidated == [called |-> FALSE, is_valid |-> FALSE, missing_cols |-> <<>>]
Validated(file) ==
    IF file.present /\ file.readable
    THEN LET result == validate_excel_data(file)
         IN  [called |-> TRUE, is_valid |-> result[1], missing_cols |-> result[2]]
    ELSE NotValidated

\* df.sort_values('Month').reset_index(drop=True): the rows in ascending
\* order of Month, renumbered from 0.  The default sort is not stable: rows of
\* the same month come out in either order.
sort_values(rows) ==
    LET n == Len(rows)
        perms == {p \in [1..n -> 1..n] : \A i, j \in 1..n : i # j => p[i] # p[j]}
    IN  {[i \in 1..n |-> rows[p[i]]] : p \in
            {q \in perms : \A i, j \in 1..n : i < j => rows[q[i]].Month <= rows[q[j]].Month}}

\* load_data_from_excel: the tables it may return (NoTable for None).  An
\* exception of read_excel or of to_datetime is caught and None returned.
load_data_from_excel(uploaded_file) ==
    IF ~uploaded_file.readable THEN {NoTable}
    ELSE IF ~validate_excel_data(uploaded_file)[1] THEN {NoTable}
    ELSE IF ~uploaded_file.month_ok THEN {NoTable}
    ELSE {Table(rows, uploaded_file.boxed) : rows \in sort_values(uploaded_file.rows)}

\* ------------------------------------------------------------------------
\* create_gm_summary_chart and the views of main
\* ------------------------------------------------------------------------

Min(S) == CHOOSE x \in S : \A y \in S : x <= y

\* The inner loop of create_gm_summary_chart over one category: it breaks
\* at the first entry whose priority flag is set.
FirstPriority(category_kpis) ==
    LET flagged == {i \in 1..Len(category_kpis) : category_kpis[i].priority}
    IN  IF flagged = {} THEN <<>> ELSE <<category_kpis[Min(flagged)]>>

\* The entries create_gm_summary_chart makes a bar for.
GmKpis ==
    LET defs == kpi_definitions
    IN  FirstPriority(defs.timeliness) \o FirstPriority(defs.quality)
            \o FirstPriority(defs.coverage) \o FirstPriority(defs.wip)
            \o FirstPriority(defs.collaboration)

\* priority_kpis of main: every entry whose priority flag is set.
priority_kpis == SelectSeq(AllDefinitions, LAMBDA kpi_def : kpi_def.priority)

\* One bar of the chart, one summary card: the entry's name, value, target,
\* status icon and (for a bar) colour.
Bar(kpi_def, kpis) ==
    LET status == get_status(kpis[kpi_def.key], Num(kpi_def.target), kpi_def.comparison)
    IN  [name |-> kpi_def.name, value |-> kpis[kpi_def.key], target |-> kpi_def.target,
         status |-> status[1], colour |-> Colour(status)]

Card(kpi_def, kpis) ==
    LET status == get_status(kpis[kpi_def.key], Num(kpi_def.target), kpi_def.comparison)
    IN  [name |-> kpi_def.name, value |-> kpis[kpi_def.key], target |-> kpi_def.target,
         status |-> status[1]]

create_gm_summary_chart(kpis) ==
    LET gm_kpis == GmKpis
    IN  [i \in 1..Len(gm_kpis) |-> Bar(gm_kpis[i], kpis)]

SummaryCards(kpis) ==
    LET priority == priority_kpis
    IN  [i \in 1..Len(priority) |-> Card(priority[i], kpis)]

ViewModes == {"GM Summary", "Detailed KPIs", "Trend Analysis"}

\* A lookup that numbers the options from 1.
IndexOf_from_one(month_options, selected_month) ==
    Min({i \in 1..Len(month_options) : month_options[i] = selected_month})

\* month_options.index(selected_month): the first position holding that month.
IndexOf(month_options, selected_month) ==
    Min({i \in 1..Len(month_options) : month_options[i] = selected_month}) - 1

\* The positions the two loops of the Trend Analysis view hand to
\* calculate_kpis (create_trend_chart, then the statistics), up to the first
\* call that raises.
TrendCalls(data) ==
    LET n == Len(data.rows)
        bad == {i \in 0..(n - 1) : calculate_kpis(data, i).error # "none"}
    IN  IF bad = {} THEN [i \in 1..(2 * n) |-> (i - 1) % n]
        ELSE [i \in 1..(Min(bad) + 1) |-> i - 1]

\* An entry of all_metrics: the keys 'display', 'key', 'name' and 'target'.
\* The display string is the name followed by the titled category.
MetricInfo(kpi_def, category_name) ==
    [display |-> <<kpi_def.name, category_name>>, key |-> kpi_def.key,
     name |-> kpi_def.name, target |-> kpi_def.target]

\* The options of the trend view's KPI selector, in catalog order.
all_metrics ==
    LET defs == kpi_definitions
        Entries(category_name) ==
            [i \in 1..Len(defs[category_name]) |->
                MetricInfo(defs[category_name][i], category_name)]
    IN  Entries("timeliness") \o Entries("quality") \o Entries("coverage")
            \o Entries("wip") \o Entries("collaboration")

\* dict.get(key): the value under the key, None where the dict has no such key.
Get(dict, key) == IF key \in DOMAIN dict THEN dict[key] ELSE "None"

\* min(values): the first item is kept until an item compares less.
py_min(values) ==
    LET m[i \in 1..Len(values)] ==
            IF i = 1 THEN values[1]
            ELSE IF Lt(values[i], m[i - 1]) THEN values[i] ELSE m[i - 1]
    IN  m[Len(values)]

\* max(values): the first item is kept until an item compares greater.
py_max(values) ==
    LET m[i \in 1..Len(values)] ==
            IF i = 1 THEN values[1]
            ELSE IF Lt(m[i - 1], values[i]) THEN values[i] ELSE m[i - 1]
    IN  m[Len(values)]

\* sum(values) / len(values).
Average(values) ==
    LET acc[i \in 0..Len(values)] ==
            IF i = 0 THEN Num(0) ELSE Add(acc[i - 1], values[i])
        total == acc[Len(values)]
    IN  IF total.d = 0 THEN total ELSE [n |-> total.n, d |-> total.d * Len(values)]

\* The trend view of a run in which the selector holds no metric at all.
NoTrend ==
    [values |-> <<>>, target_line |-> FALSE, current |-> NaN, average |-> NaN,
     best |-> NaN, worst |-> NaN]

\* The trend chart and the four statistics of the Trend Analysis view for the
\* option selected_metric of the selector (no call of calculate_kpis raises).
TrendStatistics(data, selected_metric) ==
    LET metrics == all_metrics
        metric_info ==
            metrics[Min({i \in 1..Len(metrics) : metrics[i].display = selected_metric})]
        values == [idx \in 1..Len(data.rows) |->
                      calculate_kpis(data, idx - 1).kpis[metric_info.key]]
    IN  [values |-> values,
         target_line |-> metric_info.target # 0,
         current |-> values[Len(values)],
         average |-> Average(values),
         best |-> IF Get(metric_info, "comparison") = "<="
                  THEN py_min(values) ELSE py_max(values),
         worst |-> IF Get(metric_info, "comparison") = "<="
                   THEN py_max(values) ELSE py_min(values)]

\* What main renders once the table is loaded and the widgets are read:
\* from the call of calculate_kpis for the selected month to the footer.
\* `metric` is what the trend selector holds (<<>>: untouched, so its default,
\* the first option).
Render(data, month_idx, view_mode, metric) ==
    LET current == calculate_kpis(data, month_idx)
        calls == IF current.error = "none" /\ view_mode = "Trend Analysis"
                 THEN <<month_idx>> \o TrendCalls(data)
                 ELSE <<month_idx>>
        \* the run ends at the first call that raises: only the last call can have
        raised == \/ current.error # "none"
                  \/ calculate_kpis(data, calls[Len(calls)]).error # "none"
        summary == ~raised /\ view_mode = "GM Summary"
        selector == current.error = "none" /\ view_mode = "Trend Analysis"
        selected == IF metric = <<>> THEN all_metrics[0 + 1].display ELSE metric
    IN  [screen |-> IF raised THEN "exception" ELSE "dashboard",
         selected_metric |-> IF selector THEN selected ELSE <<>>,
         trend |-> IF selector /\ ~raised THEN TrendStatistics(data, selected) ELSE NoTrend,
         current_kpis |-> current,
         gm_chart |-> IF summary THEN create_gm_summary_chart(current.kpis) ELSE <<>>,
         priority_cards |-> IF summary THEN SummaryCards(current.kpis) ELSE <<>>,
         kpi_calls |-> calls,
         status_calls |->
            IF raised THEN 0
            ELSE IF view_mode = "GM Summary" THEN Len(GmKpis) + Len(priority_kpis)
            ELSE IF view_mode = "Detailed KPIs" THEN Len(AllDefinitions)
            ELSE 0]


\* ------------------------------------------------------------------------
\* State
\* ------------------------------------------------------------------------

VARIABLES
    uploaded_file,   \* the file in the sidebar's uploader (NoFile: none)
    validation,      \* what validate_excel_data returned in the last run
    monthly_data,    \* the table of the last run (NoTable: None, or never assigned)
    selected_month,  \* the option of the month selectbox (0: no selectbox, or untouched)
    month_idx,       \* the position handed to calculate_kpis
    view_mode,       \* the option of the view radio
    screen,          \* how the last run ended: instructions, load_error, dashboard, exception
    current_kpis,    \* what calculate_kpis(monthly_data, month_idx) ended with
    gm_chart,        \* the bars of the GM Summary chart
    priority_cards,  \* the summary cards below it
    kpi_calls,       \* the positions handed to calculate_kpis during the last run
    status_calls,    \* how many times the last run called get_status
    selected_metric, \* the option of the trend view's KPI selectbox (<<>>: no selectbox)
    trend,           \* the chart values and the statistics of the trend view
    value,           \* get_status on its own: its arguments ...
    target,
    comparison,
    status           \* ... and its result

vars ==
    <<uploaded_file, validation, monthly_data, selected_month, month_idx, view_mode,
      screen, current_kpis, gm_chart, priority_cards, kpi_calls, status_calls,
      selected_metric, trend, value, target, comparison, status>>

sessionVars ==
    <<uploaded_file, validation, selected_month, view_mode, screen, gm_chart,
      priority_cards, kpi_calls, status_calls, selected_metric, trend>>

statusVars == <<value, target, comparison, status>>

NotCalled == [error |-> "not called", kpis |-> NoKpis]
NoStatus == <<"none", "none">>

\* ------------------------------------------------------------------------
\* main
\* ------------------------------------------------------------------------

\* What a run of main leaves on the page.
Page(scr, kpis, chart, cards, calls, nstatus) ==
    [screen |-> scr, current_kpis |-> kpis, gm_chart |-> chart, priority_cards |-> cards,
     kpi_calls |-> calls, status_calls |-> nstatus, selected_metric |-> <<>>,
     trend |-> NoTrend]

\* A no-upload branch that renders a built-in two-month sample table.
main_no_upload_sample == Render(Table(<<RowA, RowB>>, FALSE), 1, "GM Summary", <<>>)

\* The branch of main taken when no file is uploaded: instructions only.
main_no_upload == Page("instructions", NotCalled, <<>>, <<>>, <<>>, 0)

\* main returns right after load_data_from_excel returned None.
main_load_failed == Page("load_error", NotCalled, <<>>, <<>>, <<>>, 0)

\* The table has no row: monthly_data['Month'].min() is NaT, and its
\* strftime raises before the selectors are drawn.
main_empty_table == Page("exception", NotCalled, <<>>, <<>>, <<>>, 0)

Show(page) ==
    /\ screen' = page.screen
    /\ current_kpis' = page.current_kpis
    /\ gm_chart' = page.gm_chart
    /\ priority_cards' = page.priority_cards
    /\ kpi_calls' = page.kpi_calls
    /\ status_calls' = page.status_calls
    /\ selected_metric' = page.selected_metric
    /\ trend' = page.trend

\* One run of main with `file` in the uploader, the month selectbox holding
\* `selected` (0: untouched, so its default, the last option), the view
\* radio holding `view` and the trend selector holding `metric`.
main(file, selected, view, metric) ==
    /\ uploaded_file' = file
    /\ validation' = Validated(file)
    /\ UNCHANGED statusVars
    /\ IF ~file.present
       THEN /\ monthly_data' = NoTable
            /\ selected_month' = 0
            /\ month_idx' = -1
            /\ view_mode' = "GM Summary"
            /\ Show(main_no_upload)
       ELSE \E data \in load_data_from_excel(file) :
            /\ monthly_data' = data
            /\ IF ~data.loaded \/ data.rows = <<>>
               THEN /\ selected_month' = 0
                    /\ month_idx' = -1
                    /\ view_mode' = "GM Summary"
                    /\ Show(IF data.loaded THEN main_empty_table ELSE main_load_failed)
               ELSE LET month_options == [i \in 1..Len(data.rows) |-> data.rows[i].Month]
                        month == IF selected = 0
                                 THEN month_options[(Len(month_options) - 1) + 1]
                                 ELSE selected
                        idx == IndexOf(month_options, month)
                    IN  /\ selected_month' = month
                        /\ month_idx' = idx
                        /\ view_mode' = view
                        /\ Show(Render(data, idx, view, metric))

\* The month selectbox and the view radio are on the page.
WidgetsShown == monthly_data.loaded /\ monthly_data.rows # <<>>

\* The KPI selectbox of the trend view is on the page.
MetricShown == WidgetsShown /\ selected_metric # <<>>

\* ------------------------------------------------------------------------
\* The spreadsheets a user uploads
\* ------------------------------------------------------------------------

AllRequired == Range(required_columns)

\* The sets of required columns a spreadsheet lacks: any one of them, or any
\* two that follow each other in required_columns.
MissingChoices ==
    {{required_columns[i]} : i \in 1..Len(required_columns)}
        \cup {{required_columns[i], required_columns[i + 1]} : i \in 1..(Len(required_columns) - 1)}

SheetRows ==
    UNION {[1..n -> {[r EXCEPT !.Month = m] : r \in SheetRowKinds, m \in Months}] : n \in 0..MaxRows}

\* A row as a sheet without the columns `missing` holds it.
Without(row, missing) == [c \in AllRequired \ missing |-> row[c]]

Files ==
    {File(FALSE, FALSE, {}, <<>>, FALSE)}
        \cup {File(TRUE, FALSE, AllRequired, <<RowA>>, FALSE)}
        \cup {File(TRUE, TRUE, (AllRequired \ m) \cup x, <<Without(RowA, m)>>, FALSE) :
                m \in MissingChoices, x \in {{}, {"Notes"}}}
        \cup {File(TRUE, TRUE, AllRequired \cup {"Notes"}, <<RowB, RowA>>, FALSE)}
        \cup {File(TRUE, TRUE, AllRequired, rows, boxed) : rows \in SheetRows, boxed \in BOOLEAN}

\* ------------------------------------------------------------------------
\* The session: the user's interactions, each followed by a run of main
\* ------------------------------------------------------------------------

\* Putting a file into the empty uploader.  (Replacing a file leads to the
\* states that removing it and uploading the other one leads to.)
Upload(file) ==
    /\ ~uploaded_file.present
    /\ main(file, 0, "GM Summary", <<>>)

RemoveFile ==
    /\ uploaded_file.present
    /\ main(NoFile, 0, "GM Summary", <<>>)

\* Picking the option at position i of the month selectbox.
SelectMonth(i) ==
    /\ WidgetsShown
    /\ i \in 1..Len(monthly_data.rows)
    /\ monthly_data.rows[i].Month # selected_month
    /\ main(uploaded_file, monthly_data.rows[i].Month, view_mode, selected_metric)

SelectView(view) ==
    /\ WidgetsShown
    /\ view # view_mode
    /\ main(uploaded_file, selected_month, view, selected_metric)

\* Picking the option at position k of the trend view's KPI selectbox.
SelectMetric(k) ==
    /\ MetricShown
    /\ k \in 0..(Len(all_metrics) - 1)
    /\ all_metrics[k + 1].display # selected_metric
    /\ main(uploaded_file, selected_month, view_mode, all_metrics[k + 1].display)

StatusIdle ==
    /\ value = Num(0)
    /\ target = Num(0)
    /\ comparison = "<="
    /\ status = NoStatus

\* The page as first opened: main has run once with nothing uploaded.
Init ==
    /\ StatusIdle
    /\ uploaded_file = NoFile
    /\ validation = NotValidated
    /\ monthly_data = NoTable
    /\ selected_month = 0
    /\ month_idx = -1
    /\ view_mode = "GM Summary"
    /\ screen = main_no_upload.screen
    /\ current_kpis = main_no_upload.current_kpis
    /\ gm_chart = main_no_upload.gm_chart
    /\ priority_cards = main_no_upload.priority_cards
    /\ kpi_calls = main_no_upload.kpi_calls
    /\ status_calls = main_no_upload.status_calls
    /\ selected_metric = main_no_upload.selected_metric
    /\ trend = main_no_upload.trend

Next ==
    \/ \E file \in Files : Upload(file)
    \/ RemoveFile
    \/ \E i \in 1..MaxRows : SelectMonth(i)
    \/ \E view \in ViewModes : SelectView(view)
    \/ \E k \in 0..MaxMetric : SelectMetric(k)

Spec == Init /\ [][Next]_vars

\* ------------------------------------------------------------------------
\* calculate_kpis on its own: any table, any position
\* ------------------------------------------------------------------------

Tables ==
    {Table(rows, boxed) : rows \in UNION {[1..n -> RowKinds] : n \in 0..MaxRows},
                          boxed \in BOOLEAN}

SessionIdle ==
    /\ uploaded_file = NoFile
    /\ validation = NotValidated
    /\ selected_month = 0
    /\ view_mode = "GM Summary"
    /\ screen = "instructions"
    /\ gm_chart = <<>>
    /\ priority_cards = <<>>
    /\ kpi_calls = <<>>
    /\ status_calls = 0
    /\ selected_metric = <<>>
    /\ trend = NoTrend

InitKpis ==
    /\ SessionIdle
    /\ StatusIdle
    /\ monthly_data \in Tables
    /\ month_idx \in -MaxIdx..MaxIdx
    /\ current_kpis = NotCalled

Calculate ==
    /\ current_kpis = NotCalled
    /\ current_kpis' = calculate_kpis(monthly_data, month_idx)
    /\ UNCHANGED <<monthly_data, month_idx>>
    /\ UNCHANGED sessionVars
    /\ UNCHANGED statusVars

SpecKpis == InitKpis /\ [][Calculate]_vars

\* ------------------------------------------------------------------------
\* get_status on its own: any value, any target, both directions
\* ------------------------------------------------------------------------

Values == {[n |-> k, d |-> 10] : k \in -MaxTenths..MaxTenths} \cup {PosInf, NegInf, NaN}

Targets == {Num(t) : t \in -MaxTarget..MaxTarget}

InitStatus ==
    /\ SessionIdle
    /\ monthly_data = NoTable
    /\ month_idx = -1
    /\ current_kpis = NotCalled
    /\ value \in Values
    /\ target \in Targets
    /\ comparison \in {"<=", ">="}
    /\ status = NoStatus

Classify ==
    /\ status = NoStatus
    /\ status' = get_status(value, target, comparison)
    /\ UNCHANGED <<value, target, comparison, monthly_data, month_idx, current_kpis>>
    /\ UNCHANGED sessionVars

SpecStatus == InitStatus /\ [][Classify]_vars


\* ------------------------------------------------------------------------
\* Properties
\* ------------------------------------------------------------------------

\* The piecewise rule of the status classifier.
OnTargetRule(v, t, c) == IF c = "<=" THEN Le(v, t) ELSE Le(t, v)
NearTargetRule(v, t, c) ==
    IF c = "<="
    THEN Lt(t, v) /\ Le(v, Times(t, 11, 10))
    ELSE Le(Times(t, 9, 10), v) /\ Lt(v, t)

\* C1: for every value, every target and both directions get_status returns
\* exactly one of the three statuses, the one the piecewise rule gives:
\* on-target iff the value is on the good side of the target or equal to it,
\* near-target iff it is strictly on the bad side but within the 10% band
\* (band edge included), off-target otherwise.
C1_StatusFollowsPiecewiseRule ==
    status # NoStatus =>
        /\ status \in {Green, Amber, Red}
        /\ (status = Green) <=> OnTargetRule(value, target, comparison)
        /\ (status = Amber) <=> NearTargetRule(value, target, comparison)
        /\ (status = Red) <=>
              (~OnTargetRule(value, target, comparison)
                  /\ ~NearTargetRule(value, target, comparison))
        /\ (value.d = 10 /\ value.n = 10 * target.n) => status = Green

\* The outer band edge: target 5, value 5.5, at-most, classified near-target.
C1_Witness ==
    /\ comparison = "<="
    /\ target = Num(5)
    /\ value = [n |-> 55, d |-> 10]
    /\ status = Amber

\* The selected row of a call calculate_kpis(monthly_data, month_idx) with a valid index.
ValidIndex == month_idx >= 0 /\ month_idx < Len(monthly_data.rows)
SelectedRow == monthly_data.rows[month_idx + 1]

\* x is exactly num / den * scale.
IsQuotient(x, num, den, scale) == x.d > 0 /\ x.n * den = num * scale * x.d

\* C2: for a valid index whose row has no zero denominator, every KPI
\* returned equals its formula on that row alone: pass-throughs unchanged,
\* missed_milestones = planned - invoiced (negative allowed), percentages =
\* numerator / denominator * 100, the two ratios the plain quotient; exact,
\* no rounding, no other row involved.
C2_KpisFollowFormulas ==
    (/\ current_kpis # NotCalled
     /\ ValidIndex
     /\ \A c \in DenominatorColumns : SelectedRow[c] # 0) =>
        LET row == SelectedRow
            k == current_kpis.kpis
        IN  /\ current_kpis.error = "none"
            /\ IsQuotient(k.billing_timeliness_days, row.Avg_Billing_Timeliness, 1, 1)
            /\ IsQuotient(k.invoice_cycle_time, row.Avg_Invoice_Cycle_Time, 1, 1)
            /\ IsQuotient(k.dispute_resolution_days, row.Avg_Dispute_Resolution_Days, 1, 1)
            /\ IsQuotient(k.pm_approval_days, row.Avg_PM_Approval_Days, 1, 1)
            /\ IsQuotient(k.missed_milestones,
                          row.Planned_Milestones - row.Invoiced_Milestones, 1, 1)
            /\ IsQuotient(k.pct_invoices_on_time, row.OnTime_Invoices, row.Total_Invoices, 100)
            /\ IsQuotient(k.invoice_error_rate, row.Corrected_Invoices, row.Total_Invoices, 100)
            /\ IsQuotient(k.invoice_reissue_rate, row.Reissued_Invoices, row.Total_Invoices, 100)
            /\ IsQuotient(k.disputed_invoice_pct, row.Disputed_Invoices, row.Total_Invoices, 100)
            /\ IsQuotient(k.billing_coverage_pct, row.Invoiced_Amount, row.Recognized_Revenue, 100)
            /\ IsQuotient(k.unbilled_revenue_pct, row.Recognized_Revenue - row.Invoiced_Amount,
                          row.Recognized_Revenue, 100)
            /\ IsQuotient(k.co_billing_rate, row.CO_Invoiced, row.CO_Approved, 100)
            /\ IsQuotient(k.advance_drawdown_rate, row.Advance_Used, row.Advance_Received, 100)
            /\ IsQuotient(k.wip_aging_days, row.WIP, row.Avg_Daily_Billed_Revenue, 1)
            /\ IsQuotient(k.stale_wip_pct, row.Old_WIP, row.WIP, 100)
            /\ IsQuotient(k.wip_to_revenue_ratio, row.WIP, row.Monthly_Revenue, 1)
            /\ IsQuotient(k.incomplete_packages_pct, row.Returned_Packages,
                          row.Submitted_Packages, 100)
            /\ IsQuotient(k.late_cost_inputs_pct, row.Late_Cost_Reports,
                          row.Total_Cost_Reports, 100)

\* The second row of a two-row table: more invoiced than planned, so
\* missed_milestones is negative, and 26 / 30 * 100 is no whole number.
C2_Witness ==
    /\ current_kpis.error = "none"
    /\ monthly_data.rows = <<RowA, RowB>>
    /\ month_idx = 1
    /\ current_kpis.kpis.missed_milestones = Num(-2)
    /\ current_kpis.kpis.pct_invoices_on_time = [n |-> 2600, d |-> 30]

CatalogKeys ==
    LET defs == AllDefinitions
    IN  {defs[i].key : i \in 1..Len(defs)}

\* C3: the mapping calculate_kpis returns has exactly 18 keys, the
\* derivation keys of the catalog; the catalog holds 18 definitions in 5
\* categories and no key twice.
C3_KeysAreCatalogKeys ==
    /\ Len(AllDefinitions) = 18
    /\ DOMAIN kpi_definitions = Range(categories)
    /\ Cardinality(DOMAIN kpi_definitions) = 5
    /\ Cardinality(CatalogKeys) = Len(AllDefinitions)
    /\ current_kpis.error = "none" =>
          /\ DOMAIN current_kpis.kpis = CatalogKeys
          /\ Cardinality(DOMAIN current_kpis.kpis) = 18

\* The Detailed KPIs view of an uploaded table: all 18 entries looked up.
C3_Witness ==
    /\ screen = "dashboard"
    /\ view_mode = "Detailed KPIs"
    /\ status_calls = 18
    /\ current_kpis.error = "none"

PriorityCount(category) ==
    LET category_kpis == kpi_definitions[category]
    IN  Cardinality({i \in 1..Len(category_kpis) : category_kpis[i].priority})

PriorityTotal == Len(priority_kpis)

\* C4 as stated: exactly 5 definitions carry the priority flag, exactly one
\* in each of the 5 categories.
C4_OnePriorityPerCategory ==
    /\ PriorityTotal = 5
    /\ \A i \in 1..Len(categories) : PriorityCount(categories[i]) = 1

\* C4 as amended: exactly 5 definitions carry the priority flag, but not one
\* per category: timeliness 1, quality 1, coverage 2, wip 1, collaboration 0;
\* they are the 5 summary cards of the GM Summary view.
C4_PriorityFlags ==
    /\ PriorityTotal = 5
    /\ PriorityCount("timeliness") = 1
    /\ PriorityCount("quality") = 1
    /\ PriorityCount("coverage") = 2
    /\ PriorityCount("wip") = 1
    /\ PriorityCount("collaboration") = 0
    /\ (screen = "dashboard" /\ view_mode = "GM Summary") =>
          [i \in 1..Len(priority_cards) |-> priority_cards[i].name] =
              <<"Billing Timeliness (Days)", "Disputed Invoice %", "Billing Coverage %",
                "Unbilled Revenue %", "WIP Aging (Days)">>

\* The GM Summary view with its cards, two of them coverage KPIs.
C4_Witness ==
    /\ screen = "dashboard"
    /\ view_mode = "GM Summary"
    /\ Len(priority_cards) = 5
    /\ priority_cards[3].name = "Billing Coverage %"
    /\ priority_cards[4].name = "Unbilled Revenue %"

\* C5: a readable spreadsheet lacking a required column is rejected whole:
\* validate_excel_data reports failure with exactly the absent required
\* columns, load_data_from_excel returns no table, and main returns before
\* any call of calculate_kpis or get_status; a table is accepted only with
\* all 26 required columns present.
C5_MissingColumnsRejected ==
    /\ Len(required_columns) = 26
    /\ (uploaded_file.present /\ uploaded_file.readable
            /\ ~(AllRequired \subseteq uploaded_file.columns)) =>
          /\ validation.called
          /\ ~validation.is_valid
          /\ Range(validation.missing_cols) = AllRequired \ uploaded_file.columns
          /\ Len(validation.missing_cols) = Cardinality(AllRequired \ uploaded_file.columns)
          /\ monthly_data = NoTable
          /\ screen = "load_error"
          /\ current_kpis = NotCalled
          /\ kpi_calls = <<>>
          /\ status_calls = 0
    /\ monthly_data.loaded => AllRequired \subseteq uploaded_file.columns

\* A spreadsheet without WIP and Avg_Daily_Billed_Revenue, rejected.
C5_Witness ==
    /\ uploaded_file.present
    /\ uploaded_file.readable
    /\ AllRequired \ uploaded_file.columns = {"WIP", "Avg_Daily_Billed_Revenue"}
    /\ validation.missing_cols = <<"WIP", "Avg_Daily_Billed_Revenue">>
    /\ screen = "load_error"


Called == current_kpis # NotCalled

\* C6 as stated: calculate_kpis ends in an index-out-of-range error, and
\* returns no mapping, for every month_idx outside [0, len): month_idx >= len
\* and every negative month_idx.
C6_EveryIndexOutsideRangeRaises ==
    (Called /\ ~ValidIndex) =>
        /\ current_kpis.error = "IndexError"
        /\ current_kpis.kpis = NoKpis

\* C6 as amended: calculate_kpis ends in an index-out-of-range error, with no
\* mapping, exactly when month_idx >= len or month_idx < -len; for
\* -len <= month_idx < 0 there is no such error: iloc counts from the end and
\* the KPIs are those of the row at position len + month_idx.
C6_IndexErrorOutsideBothRanges ==
    Called =>
        LET len == Len(monthly_data.rows)
        IN  /\ (current_kpis.error = "IndexError") <=> (month_idx >= len \/ month_idx < -len)
            /\ current_kpis.error = "IndexError" => current_kpis.kpis = NoKpis
            /\ (month_idx < 0 /\ month_idx >= -len /\ current_kpis.error = "none") =>
                  LET row == monthly_data.rows[len + month_idx + 1]
                      k == current_kpis.kpis
                  IN  /\ IsQuotient(k.billing_timeliness_days, row.Avg_Billing_Timeliness, 1, 1)
                      /\ IsQuotient(k.pm_approval_days, row.Avg_PM_Approval_Days, 1, 1)
                      /\ IsQuotient(k.missed_milestones,
                                    row.Planned_Milestones - row.Invoiced_Milestones, 1, 1)

\* month_idx = -1 on a two-row table: the KPIs of the last row, no error.
C6_Witness ==
    /\ month_idx = -1
    /\ monthly_data.rows = <<RowA, RowB>>
    /\ current_kpis.error = "none"
    /\ current_kpis.kpis.billing_timeliness_days = Num(RowB.Avg_Billing_Timeliness)

\* The KPIs that are quotients: <<key, denominator column, numerator of row>>.
NumeratorOf(row, key) ==
    CASE key = "pct_invoices_on_time" -> row.OnTime_Invoices
      [] key = "invoice_error_rate" -> row.Corrected_Invoices
      [] key = "invoice_reissue_rate" -> row.Reissued_Invoices
      [] key = "disputed_invoice_pct" -> row.Disputed_Invoices
      [] key = "billing_coverage_pct" -> row.Invoiced_Amount
      [] key = "unbilled_revenue_pct" -> row.Recognized_Revenue - row.Invoiced_Amount
      [] key = "co_billing_rate" -> row.CO_Invoiced
      [] key = "advance_drawdown_rate" -> row.Advance_Used
      [] key = "wip_aging_days" -> row.WIP
      [] key = "stale_wip_pct" -> row.Old_WIP
      [] key = "wip_to_revenue_ratio" -> row.WIP
      [] key = "incomplete_packages_pct" -> row.Returned_Packages
      [] key = "late_cost_inputs_pct" -> row.Late_Cost_Reports

DenominatorOf ==
    [pct_invoices_on_time |-> "Total_Invoices", invoice_error_rate |-> "Total_Invoices",
     invoice_reissue_rate |-> "Total_Invoices", disputed_invoice_pct |-> "Total_Invoices",
     billing_coverage_pct |-> "Recognized_Revenue", unbilled_revenue_pct |-> "Recognized_Revenue",
     co_billing_rate |-> "CO_Approved", advance_drawdown_rate |-> "Advance_Received",
     wip_aging_days |-> "Avg_Daily_Billed_Revenue", stale_wip_pct |-> "WIP",
     wip_to_revenue_ratio |-> "Monthly_Revenue",
     incomplete_packages_pct |-> "Submitted_Packages",
     late_cost_inputs_pct |-> "Total_Cost_Reports"]

ZeroDenominator == \E c \in DenominatorColumns : SelectedRow[c] = 0

\* C7 as stated: with a zero in any denominator field of the selected row,
\* calculate_kpis ends in a division-by-zero error propagated to the caller
\* and returns no mapping.
C7_ZeroDenominatorRaises ==
    (Called /\ ValidIndex /\ ZeroDenominator) =>
        /\ current_kpis.error = "ZeroDivisionError"
        /\ current_kpis.kpis = NoKpis

\* C7 as amended: calculate_kpis has no guard, retry or default of its own,
\* and the cell type decides.  With numeric columns (numpy scalars) nothing
\* is raised: the full 18-key mapping is returned, each KPI whose denominator
\* is 0 being inf or -inf (numerator not 0) or nan (numerator 0), never a
\* finite substitute, the other KPIs finite.  With Python numbers (object
\* columns) ZeroDivisionError is raised and no mapping returned.
C7_ZeroDenominatorByCellType ==
    (Called /\ ValidIndex /\ ZeroDenominator) =>
        IF monthly_data.boxed
        THEN current_kpis.error = "ZeroDivisionError" /\ current_kpis.kpis = NoKpis
        ELSE /\ current_kpis.error = "none"
             /\ Cardinality(DOMAIN current_kpis.kpis) = 18
             /\ DOMAIN DenominatorOf \subseteq DOMAIN current_kpis.kpis
             /\ \A key \in DOMAIN DenominatorOf :
                   LET x == current_kpis.kpis[key]
                   IN  IF SelectedRow[DenominatorOf[key]] = 0
                       THEN x.d = 0 /\ x.n = Sign(NumeratorOf(SelectedRow, key))
                       ELSE x.d > 0

\* Total_Invoices = 0 in a numeric column: a mapping comes back, with
\* pct_invoices_on_time = inf.
C7_Witness ==
    /\ ValidIndex
    /\ ~monthly_data.boxed
    /\ SelectedRow = [RowA EXCEPT !.Total_Invoices = 0]
    /\ current_kpis.error = "none"
    /\ current_kpis.kpis.pct_invoices_on_time = PosInf
    /\ current_kpis.kpis.billing_coverage_pct.d > 0

\* C8: with target 0 and at-most (the Missed Billing Milestones entry),
\* get_status classifies every value > 0 as off-target, 0 as on-target and
\* every value < 0 as on-target; no value is classified near-target.
C8_ZeroTargetHasNoNearBand ==
    /\ \E kpi_def \in Range(kpi_definitions.timeliness) :
          /\ kpi_def.key = "missed_milestones"
          /\ kpi_def.name = "Missed Billing Milestones"
          /\ kpi_def.target = 0
          /\ kpi_def.comparison = "<="
    /\ (status # NoStatus /\ target = Num(0) /\ comparison = "<=") =>
          /\ status # Amber
          /\ (~IsNaN(value) /\ value.n > 0) => status = Red
          /\ (~IsNaN(value) /\ value.n = 0) => status = Green
          /\ value.n < 0 => status = Green

\* One missed milestone tenth above a target of 0: off-target at once.
C8_Witness ==
    /\ target = Num(0)
    /\ comparison = "<="
    /\ value = [n |-> 1, d |-> 10]
    /\ status = Red

\* Some call of calculate_kpis of the last run raised.
SomeCallRaised ==
    \E i \in 1..Len(kpi_calls) : calculate_kpis(monthly_data, kpi_calls[i]).error # "none"

\* C9 as stated: with no spreadsheet uploaded the KPIs are computed from a
\* built-in sample table and displayed, with a validated spreadsheet they are
\* computed from its table: in both session states a month's KPIs are
\* computed and rendered.
C9_KpisRenderedInBothStates ==
    /\ ~uploaded_file.present => (screen = "dashboard" /\ current_kpis.error = "none")
    /\ (uploaded_file.present /\ validation.is_valid /\ monthly_data.rows # <<>>) =>
          kpi_calls # <<>>

\* C9 as amended: with no spreadsheet uploaded the dashboard computes no KPI
\* and shows the upload instructions only (there is no built-in table); with
\* a spreadsheet uploaded, validated and loaded with at least one row, the
\* table holds that spreadsheet's rows, calculate_kpis is called on it for the
\* selected month, and the dashboard is rendered when no call raises.
C9_KpisOnlyFromUpload ==
    /\ ~uploaded_file.present =>
          /\ screen = "instructions"
          /\ monthly_data = NoTable
          /\ current_kpis = NotCalled
          /\ kpi_calls = <<>>
          /\ status_calls = 0
          /\ gm_chart = <<>>
          /\ priority_cards = <<>>
    /\ kpi_calls # <<>> =>
          /\ uploaded_file.present
          /\ validation.is_valid
          /\ monthly_data.loaded
    /\ (uploaded_file.present /\ monthly_data.loaded /\ monthly_data.rows # <<>>) =>
          /\ validation.is_valid
          /\ Range(monthly_data.rows) = Range(uploaded_file.rows)
          /\ Len(monthly_data.rows) = Len(uploaded_file.rows)
          /\ kpi_calls # <<>>
          /\ kpi_calls[1] = month_idx
          /\ ValidIndex
          /\ current_kpis.error = "none" =>
                IsQuotient(current_kpis.kpis.billing_timeliness_days,
                           SelectedRow.Avg_Billing_Timeliness, 1, 1)
          /\ (screen = "dashboard") <=> ~SomeCallRaised

\* An uploaded two-month spreadsheet on the dashboard.
C9_Witness ==
    /\ uploaded_file.present
    /\ Len(monthly_data.rows) = 2
    /\ screen = "dashboard"
    /\ kpi_calls = <<month_idx>>
    /\ current_kpis.error = "none"

\* C10: in the GM Summary view the chart has one bar for every definition
\* whose priority flag is set, the same entries in the same order as the
\* summary cards below it, each bar coloured by get_status of that KPI's
\* value, target and direction.
C10_ChartShowsEveryPriorityKpi ==
    (screen = "dashboard" /\ view_mode = "GM Summary") =>
        LET priority == priority_kpis
        IN  /\ Len(gm_chart) = Len(priority)
            /\ Len(gm_chart) = Len(priority_cards)
            /\ \A i \in 1..Len(gm_chart) :
                  /\ i <= Len(priority)
                  /\ gm_chart[i].name = priority[i].name
                  /\ gm_chart[i].name = priority_cards[i].name
                  /\ gm_chart[i].colour =
                        Colour(get_status(current_kpis.kpis[priority[i].key],
                                          Num(priority[i].target), priority[i].comparison))

\* The rows of a table are in ascending order of Month.
SortedByMonth(rows) ==
    \A i, j \in 1..Len(rows) : i < j => rows[i].Month <= rows[j].Month

\* How many times a row occurs in a sequence of rows.
Occurrences(rows, r) == Cardinality({i \in 1..Len(rows) : rows[i] = r})

\* Two sequences hold the same rows, each as many times.
SameRows(rows, sheet) ==
    /\ Len(rows) = Len(sheet)
    /\ \A r \in Range(rows) \cup Range(sheet) : Occurrences(rows, r) = Occurrences(sheet, r)

\* C11: every run of main that loads a table of at least one row leaves the
\* table in ascending order of month, holding exactly the uploaded rows at
\* positions 0..len-1, and hands calculate_kpis a position at which the
\* selected month stands; in the run that follows an upload, where the month
\* selector is untouched, that position is the last one, len(table)-1.
C11_SortedAndLatestByDefault ==
    [][(uploaded_file'.present /\ monthly_data'.loaded /\ monthly_data'.rows # <<>>) =>
          /\ SortedByMonth(monthly_data'.rows)
          /\ SameRows(monthly_data'.rows, uploaded_file'.rows)
          /\ kpi_calls' # <<>>
          /\ kpi_calls'[1] = month_idx'
          /\ month_idx' \in 0..(Len(monthly_data'.rows) - 1)
          /\ monthly_data'.rows[month_idx' + 1].Month = selected_month'
          /\ ~uploaded_file.present => month_idx' = Len(monthly_data'.rows) - 1]_vars

\* The catalog direction of the KPI the trend selector holds.
SelectedDirection ==
    LET metrics == all_metrics
        defs == AllDefinitions
    IN  defs[Min({i \in 1..Len(metrics) : metrics[i].display = selected_metric})].comparison

\* x is the least (the greatest) of the values.
IsMinimum(x, values) == x \in Range(values) /\ \A v \in Range(values) : Le(x, v)
IsMaximum(x, values) == x \in Range(values) /\ \A v \in Range(values) : Le(v, x)

\* The trend view is rendered and every per-month value is a finite number.
TrendShown ==
    /\ screen = "dashboard"
    /\ view_mode = "Trend Analysis"
    /\ \A v \in Range(trend.values) : IsFinite(v)

\* C12: in the Trend Analysis view Best and Worst follow the catalog direction
\* of the selected KPI: for an at-most ('<=') KPI Best is the minimum and
\* Worst the maximum of the per-month values, for an at-least ('>=') KPI Best
\* is the maximum and Worst the minimum.
C12_BestWorstFollowDirection ==
    TrendShown =>
        IF SelectedDirection = "<="
        THEN IsMinimum(trend.best, trend.values) /\ IsMaximum(trend.worst, trend.values)
        ELSE IsMaximum(trend.best, trend.values) /\ IsMinimum(trend.worst, trend.values)

\* C13: once a table is loaded, whatever months, views and trend KPIs were
\* selected, every position the last run handed to calculate_kpis (for the
\* selected month, and for each month in the loops of the trend chart and of
\* the trend statistics) lies in 0..len(table)-1, and no call ended with
\* IndexError.
C13_EveryCallWithinTable ==
    monthly_data.loaded =>
        /\ \A i \in 1..Len(kpi_calls) :
              /\ kpi_calls[i] \in 0..(Len(monthly_data.rows) - 1)
              /\ calculate_kpis(monthly_data, kpi_calls[i]).error # "IndexError"
        /\ current_kpis.error # "IndexError"
        /\ kpi_calls # <<>> => month_idx = kpi_calls[1]

\* The trend view of a two-month table with the first month selected: one
\* call for the selected month, then both loops over the two positions.
C13_Witness ==
    /\ screen = "dashboard"
    /\ view_mode = "Trend Analysis"
    /\ Len(monthly_data.rows) = 2
    /\ month_idx = 0
    /\ kpi_calls = <<0, 0, 1, 0, 1>>
    /\ Len(trend.values) = 2

=============================================================================
